---- MODULE Spec2Model ----
(***************************************************************************)
(* A model of inventory.c: the in-memory record store (g_items, g_count),  *)
(* its operations add_item / remove_item / update_quantity, the text       *)
(* codec load_inventory / save_inventory, and the menu loop of main.       *)
(*                                                                         *)
(* Text is modelled character by character: a C string is a sequence of    *)
(* one-character strings, a file is a sequence of lines.  An int is a      *)
(* 32-bit two's complement integer.  A double is modelled as a decimal     *)
(* fixed-point number [neg, w, m]: sign, whole part and thousandths.       *)
(***************************************************************************)
EXTENDS Integers, Sequences, FiniteSets, TLC

(***************************************************************************)
(* Constants of the program                                                *)
(***************************************************************************)
\* #define MAX_ITEMS 500, scaled down so that a full store is reachable
\* (a bound of the model)
MAX_ITEMS == 3
\* #define MAX_NAME_LEN 64, scaled down so that an over-long name is short
\* (a bound of the model)
MAX_NAME_LEN == 3
\* #define LINE_BUF 256
LINE_BUF == 256
\* the largest value of int (and of long on the <windows.h> target)
INT_MAX == 2147483647
\* the quantity limit of load_inventory and parse_int
QTY_LIMIT == 1000000
\* the price limit of load_inventory and parse_double (1e9)
PRICE_LIMIT == 1000000000

\* the number of menu choices taken, over all runs of the program
MaxSteps == 3

(***************************************************************************)
(* Characters and strings                                                  *)
(***************************************************************************)
Digits == <<"0", "1", "2", "3", "4", "5", "6", "7", "8", "9">>

IsDigit(c) == \E d \in 1..10 : Digits[d] = c

DigitVal(c) == (CHOOSE d \in 1..10 : Digits[d] = c) - 1

\* isspace of <ctype.h> in the "C" locale
isspace(c) == c \in {" ", "\t", "\n", "\r"}

\* tolower of <ctype.h>, on the letters the model uses
tolower(c) ==
  CASE c = "A" -> "a"
    [] c = "B" -> "b"
    [] c = "C" -> "c"
    [] OTHER -> c

\* a comparison that tells upper case from lower case (strcmp)
strcmp_eq(s, t) == s = t

\* strcasecmp(s, t) == 0
strcasecmp_eq(s, t) ==
  /\ Len(s) = Len(t)
  /\ \A i \in 1..Len(s) : tolower(s[i]) = tolower(t[i])

RECURSIVE SkipSpace(_)
\* while (*p && isspace(*p)) p++
SkipSpace(s) ==
  IF s # <<>> /\ isspace(Head(s)) THEN SkipSpace(Tail(s)) ELSE s

RECURSIVE DropTrailingSpace(_)
\* while (len > 0 && isspace(s[len - 1])) s[--len] = '\0'
DropTrailingSpace(s) ==
  IF s # <<>> /\ isspace(s[Len(s)])
  THEN DropTrailingSpace(SubSeq(s, 1, Len(s) - 1))
  ELSE s

trim(s) == DropTrailingSpace(SkipSpace(s))

(***************************************************************************)
(* strtok(tmp, ","), strtok(NULL, ","), ...: the successive tokens of a    *)
(* line.  strtok skips every leading delimiter before a token, so tokens   *)
(* are the maximal non-empty comma-free runs.                              *)
(***************************************************************************)
RECURSIVE SkipDelims(_)
SkipDelims(s) ==
  IF s # <<>> /\ Head(s) = "," THEN SkipDelims(Tail(s)) ELSE s

RECURSIVE TokenLen(_)
TokenLen(s) ==
  IF s = <<>> \/ Head(s) = "," THEN 0 ELSE 1 + TokenLen(Tail(s))

RECURSIVE strtok(_)
strtok(s) ==
  LET t == SkipDelims(s)
      n == TokenLen(t)
  IN  IF t = <<>> THEN <<>>
      ELSE <<SubSeq(t, 1, n)>> \o
           (IF n < Len(t) THEN strtok(SubSeq(t, n + 2, Len(t))) ELSE <<>>)

(***************************************************************************)
(* strtol(s, &ep, 10): optional white space, optional sign, digits.        *)
(* The result is [val, rest]: the value and what ep points at.  A value    *)
(* beyond LONG_MAX is clamped, as strtol does.                             *)
(***************************************************************************)
RECURSIVE DigitRun(_)
DigitRun(s) ==
  IF s # <<>> /\ IsDigit(Head(s)) THEN 1 + DigitRun(Tail(s)) ELSE 0

RECURSIVE DecValue(_, _)
\* the value of the digits ds after the accumulated value acc, clamped
DecValue(ds, acc) ==
  IF ds = <<>> THEN acc
  ELSE LET d == DigitVal(Head(ds))
       IN  IF acc > (INT_MAX - d) \div 10
           THEN INT_MAX
           ELSE DecValue(Tail(ds), acc * 10 + d)

strtol(s) ==
  LET t    == SkipSpace(s)
      sign == IF t # <<>> /\ Head(t) \in {"-", "+"} THEN Head(t) ELSE ""
      u    == IF sign = "" THEN t ELSE Tail(t)
      n    == DigitRun(u)
      v    == DecValue(SubSeq(u, 1, n), 0)
  IN  IF n = 0
      THEN [val |-> 0, rest |-> s]
      ELSE [val  |-> IF sign = "-" THEN -v ELSE v,
            rest |-> SubSeq(u, n + 1, Len(u))]

(***************************************************************************)
(* strtod(s, &ep): optional white space, optional sign, digits with an     *)
(* optional fraction.  The model's alphabet has no exponent, hexadecimal,  *)
(* "inf" or "nan" forms.  Digits after the third fraction digit are        *)
(* consumed and dropped.                                                   *)
(***************************************************************************)
Price(neg, w, m) == [neg |-> neg, w |-> w, m |-> m]

ZeroPrice == Price(FALSE, 0, 0)

FracMills(ds) ==
  LET d(i) == IF i <= Len(ds) THEN DigitVal(ds[i]) ELSE 0
  IN  d(1) * 100 + d(2) * 10 + d(3)

strtod(s) ==
  LET t    == SkipSpace(s)
      sign == IF t # <<>> /\ Head(t) \in {"-", "+"} THEN Head(t) ELSE ""
      u    == IF sign = "" THEN t ELSE Tail(t)
      n    == DigitRun(u)
      a    == SubSeq(u, n + 1, Len(u))
      dot  == a # <<>> /\ Head(a) = "."
      f    == IF dot THEN DigitRun(Tail(a)) ELSE 0
      used == IF dot /\ n + f > 0 THEN n + 1 + f ELSE n
  IN  IF n = 0 /\ f = 0
      THEN [val |-> ZeroPrice, rest |-> s]
      ELSE [val  |-> Price(sign = "-",
                           DecValue(SubSeq(u, 1, n), 0),
                           IF dot THEN FracMills(SubSeq(a, 2, f + 1)) ELSE 0),
            rest |-> SubSeq(u, used + 1, Len(u))]

\* price < 0.0 (minus zero is not below zero)
PriceNegative(p) == p.neg /\ (p.w > 0 \/ p.m > 0)

\* price > 1e9
PriceAboveLimit(p) ==
  ~p.neg /\ (p.w > PRICE_LIMIT \/ (p.w = PRICE_LIMIT /\ p.m > 0))

(***************************************************************************)
(* printf conversions                                                      *)
(***************************************************************************)
RECURSIVE NatDigits(_)
NatDigits(n) ==
  IF n < 10 THEN <<Digits[n + 1]>>
  ELSE NatDigits(n \div 10) \o <<Digits[(n % 10) + 1]>>

RECURSIVE NegDigits(_)
\* the digits of -v for v <= 0, computed without negating v
NegDigits(v) ==
  LET d == (10 - (v % 10)) % 10
      r == (v + d) \div 10
  IN  IF r = 0 THEN <<Digits[d + 1]>>
      ELSE NegDigits(r) \o <<Digits[d + 1]>>

\* "%d"
fmt_d(v) == IF v < 0 THEN <<"-">> \o NegDigits(v) ELSE NatDigits(v)

\* the price rounded to hundredths, as [neg, w, m] with m a multiple of 10
\* (the inputs of the model have no price exactly half-way between two)
RoundCents(p) ==
  LET c == (p.m + 5) \div 10
  IN  IF c = 100 THEN Price(p.neg, p.w + 1, 0) ELSE Price(p.neg, p.w, c * 10)

\* "%.2f"
fmt_2f(p) ==
  LET r == RoundCents(p)
      c == r.m \div 10
  IN  (IF p.neg THEN <<"-">> ELSE <<>>) \o NatDigits(r.w) \o
      <<".", Digits[(c \div 10) + 1], Digits[(c % 10) + 1]>>

(***************************************************************************)
(* Inputs of the model                                                     *)
(***************************************************************************)
\* a name of MAX_NAME_LEN characters: one too long for Item.name
LongName == [i \in 1..MAX_NAME_LEN |-> "a"]

NameInputs ==
  { <<>>, <<"a">>, <<"A">>, <<"b">>, <<"c">>, <<"d">>, LongName }

QtyInputs == { -1, 0, 1, INT_MAX }

PriceInputs == { Price(TRUE, 1, 0), Price(FALSE, 1, 4) }

\* lines typed at the prompts of menu_add and menu_update_qty
MenuNameInputs == { <<" ">>, <<"a", " ">>, <<" ", "B">> }

MenuQtyInputs == { <<"1">>, <<>>, <<"x">> }

MenuPriceInputs == { <<"2">>, <<"-", "1">> }

\* inventory.txt before the first start: NoFile when it does not exist
NoFile == "ENOENT"

InitFiles ==
  { NoFile,
    << <<"a", ",", "1", "0", "0", "0", "0", "0", "0", ",", "1", ".", "0", "0">>,
       <<"b", ",", "2", ",", "0", ".", "9", "9">> >>,
    << <<"#", "x">>,
       <<"a", ",", "5", ",", "1", ",", "9">>,
       <<"b", ",", "3">>,
       <<"A", ",", "7", ",", "2">>,
       <<" ">>,
       <<"b", ",", ",", "3", ",", "1", ".", "5">> >>,
    << <<"a", ",", "1", ",", "1">>,
       <<"b", ",", "x", ",", "1">>,
       <<"b", ",", "2", ",", "-", "1">>,
       <<"b", ",", "2", ",", "2">>,
       <<"c", ",", "3", ",", "3">>,
       <<"d", ",", "4", ",", "4">> >> }

(***************************************************************************)
(* State                                                                   *)
(***************************************************************************)
VARIABLES
  g_items,   \* static Item g_items[MAX_ITEMS], indexed from 1
  g_count,   \* static int g_count
  file,      \* the lines of inventory.txt, or NoFile
  pc,        \* "boot", "menu", "exited", "exit_failure" or "trapped"
  op,        \* the last call: its kind, arguments and return value
  prev,      \* the store (the first g_count items) before the last call
  log,       \* what the last load_inventory did with each line it read
  steps      \* the number of menu choices taken

vars == <<g_items, g_count, file, pc, op, prev, log, steps>>

Item(name, quantity, price) ==
  [name |-> name, quantity |-> quantity, price |-> price]

\* an element of zero-initialised static storage
ZeroItem == Item(<<>>, 0, ZeroPrice)

\* the store: g_items[0 .. g_count-1]
StoreOf(items, count) == [i \in 1..count |-> items[i]]

Items == StoreOf(g_items, g_count)

\* ctx tells what a call followed: "after_save" on a load_inventory that
\* follows a successful save_inventory of the previous run
Call(kind, name, qty, price, ret, ctx) ==
  [kind |-> kind, name |-> name, qty |-> qty, price |-> price,
   ret |-> ret, ctx |-> ctx]

(***************************************************************************)
(* find_item: the first index whose name matches, 0 if absent (the code    *)
(* counts from 0 and returns -1)                                           *)
(***************************************************************************)
RECURSIVE find_from_strcmp(_, _, _, _)
\* find_item comparing with strcmp: "apple" does not find "Apple"
find_from_strcmp(items, count, name, i) ==
  IF i > count THEN 0
  ELSE IF strcmp_eq(items[i].name, name) THEN i
  ELSE find_from_strcmp(items, count, name, i + 1)

find_item_strcmp(items, count, name) == find_from_strcmp(items, count, name, 1)

RECURSIVE find_from(_, _, _, _)
find_from(items, count, name, i) ==
  IF i > count THEN 0
  ELSE IF strcasecmp_eq(items[i].name, name) THEN i
  ELSE find_from(items, count, name, i + 1)

find_item(items, count, name) == find_from(items, count, name, 1)

\* strncpy(dst, src, MAX_NAME_LEN - 1); dst[MAX_NAME_LEN - 1] = '\0'
strncpy_name(src) ==
  IF Len(src) > MAX_NAME_LEN - 1 THEN SubSeq(src, 1, MAX_NAME_LEN - 1) ELSE src

(***************************************************************************)
(* Signed int addition a + b, for b > 0.  Beyond INT_MAX the behaviour is  *)
(* undefined: the build either wraps around or traps (-ftrapv).            *)
(***************************************************************************)
IntAddOverflows(a, b) == a > INT_MAX - b

IntAddWrapped(a, b) ==
  IF IntAddOverflows(a, b) THEN (a - INT_MAX) + (b - INT_MAX) - 2 ELSE a + b

\* the outcomes of  x += b : [trap, val]; after a trap the process is gone
IntAddOutcomes(a, b) ==
  IF IntAddOverflows(a, b)
  THEN { [trap |-> FALSE, val |-> IntAddWrapped(a, b)],
         [trap |-> TRUE, val |-> a] }
  ELSE { [trap |-> FALSE, val |-> a + b] }

(***************************************************************************)
(* The store operations, as functions of the store and the arguments.      *)
(* A result is [ret, items, count, trap].                                  *)
(***************************************************************************)
Result(ret, items, count, trap) ==
  [ret |-> ret, items |-> items, count |-> count, trap |-> trap]

\* !name || strlen(name) == 0 || strlen(name) >= MAX_NAME_LEN
NameInvalid(name) == Len(name) = 0 \/ Len(name) >= MAX_NAME_LEN

\* a check that lets a quantity of zero through
AddQtyInvalid_negative_only(qty) == qty < 0

\* qty <= 0
AddQtyInvalid(qty) == qty <= 0

\* a capacity check that is off by one
StoreFull_off_by_one(count) == count > MAX_ITEMS

\* g_count >= MAX_ITEMS
StoreFull(count) == count >= MAX_ITEMS

\* g_items[idx].quantity += qty; g_items[idx].price = price
Restock(items, idx, q, price) ==
  [items EXCEPT ![idx].quantity = q, ![idx].price = price]

\* the new record written at g_items[g_count]
AppendItem(items, count, name, qty, price) ==
  [items EXCEPT ![count + 1] = Item(strncpy_name(name), qty, price)]

add_item_results(items, count, name, qty, price) ==
  IF NameInvalid(name) THEN { Result(FALSE, items, count, FALSE) }
  ELSE IF AddQtyInvalid(qty) THEN { Result(FALSE, items, count, FALSE) }
  ELSE IF PriceNegative(price) THEN { Result(FALSE, items, count, FALSE) }
  ELSE
    LET idx == find_item(items, count, name)
    IN  IF idx > 0
        THEN { IF o.trap
               THEN Result(FALSE, items, count, TRUE)
               ELSE Result(TRUE, Restock(items, idx, o.val, price), count, FALSE)
               : o \in IntAddOutcomes(items[idx].quantity, qty) }
        ELSE IF StoreFull(count)
        THEN { Result(FALSE, items, count, FALSE) }
        ELSE { Result(TRUE, AppendItem(items, count, name, qty, price),
                      count + 1, FALSE) }

RECURSIVE ShiftLeft_short(_, _, _)
\* a shift loop that stops one element early
ShiftLeft_short(items, i, count) ==
  IF i < count - 1
  THEN ShiftLeft_short([items EXCEPT ![i] = items[i + 1]], i + 1, count)
  ELSE items

RECURSIVE ShiftLeft(_, _, _)
\* for (int i = idx; i < g_count - 1; i++) g_items[i] = g_items[i + 1]
ShiftLeft(items, i, count) ==
  IF i < count
  THEN ShiftLeft([items EXCEPT ![i] = items[i + 1]], i + 1, count)
  ELSE items

remove_item_result(items, count, name) ==
  LET idx == find_item(items, count, name)
  IN  IF idx = 0 THEN Result(FALSE, items, count, FALSE)
      ELSE Result(TRUE, ShiftLeft(items, idx, count), count - 1, FALSE)

\* an update that adds to the stock instead of replacing it
SetQty_adds(items, idx, new_qty) ==
  [items EXCEPT ![idx].quantity = IntAddWrapped(@, new_qty)]

\* g_items[idx].quantity = new_qty
SetQty(items, idx, new_qty) == [items EXCEPT ![idx].quantity = new_qty]

update_quantity_result(items, count, name, new_qty) ==
  IF new_qty < 0 THEN Result(FALSE, items, count, FALSE)
  ELSE
    LET idx == find_item(items, count, name)
    IN  IF idx = 0 THEN Result(FALSE, items, count, FALSE)
        ELSE Result(TRUE, SetQty(items, idx, new_qty), count, FALSE)

(***************************************************************************)
(* load_inventory                                                          *)
(***************************************************************************)
RECURSIVE Chunks(_)
\* fgets(line, sizeof line, fp) returns at most LINE_BUF - 1 characters
Chunks(s) ==
  IF Len(s) <= LINE_BUF - 1 THEN <<s>>
  ELSE <<SubSeq(s, 1, LINE_BUF - 1)>> \o Chunks(SubSeq(s, LINE_BUF, Len(s)))

RECURSIVE fgets_all(_)
\* what the successive fgets calls return for the lines f of the file
fgets_all(f) ==
  IF f = <<>> THEN <<>>
  ELSE Chunks(Head(f) \o <<"\n">>) \o fgets_all(Tail(f))

LoadState(items, count, lg, stop) ==
  [items |-> items, count |-> count, log |-> lg, stop |-> stop]

\* if (g_count >= MAX_ITEMS) { ...; break; }
LoadFull(count) == count >= MAX_ITEMS

\* *ep != '\0' || lqty < 0 || lqty > 1000000
LoadQtyInvalid(q) == q.rest # <<>> \/ q.val < 0 \/ q.val > QTY_LIMIT

\* *ep != '\0' || price < 0.0 || price > 1e9
LoadPriceInvalid(p) ==
  p.rest # <<>> \/ PriceNegative(p.val) \/ PriceAboveLimit(p.val)

\* !tok_name || !tok_qty || !tok_price
TokensMissing(toks) == Len(toks) < 3

\* one iteration of the while loop on the text fgets returned
load_line(st, raw) ==
  LET line  == trim(raw)
      toks  == strtok(line)
      name  == trim(toks[1])
      qty   == strtol(trim(toks[2]))
      price == strtod(trim(toks[3]))
      skip(what) == LoadState(st.items, st.count, Append(st.log, what), FALSE)
  IN  IF line = <<>> THEN skip("blank")
      ELSE IF Head(line) = "#" THEN skip("comment")
      ELSE IF LoadFull(st.count)
      THEN LoadState(st.items, st.count, Append(st.log, "full"), TRUE)
      ELSE IF TokensMissing(toks) THEN skip("malformed")
      ELSE IF NameInvalid(name) THEN skip("name")
      ELSE IF LoadQtyInvalid(qty) THEN skip("quantity")
      ELSE IF LoadPriceInvalid(price) THEN skip("price")
      ELSE IF find_item(st.items, st.count, name) > 0 THEN skip("duplicate")
      ELSE LoadState(AppendItem(st.items, st.count, name, qty.val, price.val),
                     st.count + 1, Append(st.log, "loaded"), FALSE)

RECURSIVE load_loop(_, _)
\* while (fgets(line, sizeof line, fp)) { ... }
load_loop(st, chunks) ==
  IF chunks = <<>> \/ st.stop THEN st
  ELSE load_loop(load_line(st, Head(chunks)), Tail(chunks))

\* the store after load_inventory has read the lines f: g_count = 0, then
\* the loop; g_items keeps what it held
load_inventory_result(items, f) ==
  load_loop(LoadState(items, 0, <<>>, FALSE), fgets_all(f))

(***************************************************************************)
(* save_inventory                                                          *)
(***************************************************************************)
\* "# Retail Inventory - format: name,quantity,price", abbreviated
HeaderLine == <<"#", " ", "n", ",", "q", ",", "p">>

\* fprintf(fp, "%s,%d,%.2f\n", name, quantity, price)
RecordLine(it) ==
  it.name \o <<",">> \o fmt_d(it.quantity) \o <<",">> \o fmt_2f(it.price)

save_inventory_lines(items, count) ==
  <<HeaderLine>> \o [i \in 1..count |-> RecordLine(items[i])]

(***************************************************************************)
(* Input helpers of the menu.  A typed line is shorter than the buffer it  *)
(* is read into.                                                           *)
(***************************************************************************)
\* read_line: the line without its newline, trimmed
read_line(text) == trim(text)

\* parse_int: [ok, val]
parse_int(s) ==
  LET r == strtol(s)
  IN  [ok |-> ~(r.rest # <<>> \/ r.val < 0 \/ r.val > QTY_LIMIT), val |-> r.val]

\* parse_double: [ok, val]
parse_double(s) ==
  LET r == strtod(s)
  IN  [ok  |-> ~(r.rest # <<>> \/ PriceNegative(r.val) \/ PriceAboveLimit(r.val)),
       val |-> r.val]

(***************************************************************************)
(* The program                                                             *)
(***************************************************************************)
ZeroItems == [i \in 1..MAX_ITEMS |-> ZeroItem]

NoCall == Call("none", <<>>, 0, ZeroPrice, TRUE, "")

Init ==
  /\ g_items = ZeroItems
  /\ g_count = 0
  /\ file \in InitFiles
  /\ pc = "boot"
  /\ op = NoCall
  /\ prev = <<>>
  /\ log = <<>>
  /\ steps = 0

\* a store operation has returned r to the menu loop
Returned(call, r) ==
  /\ g_items' = r.items
  /\ g_count' = r.count
  /\ pc' = IF r.trap THEN "trapped" ELSE "menu"
  /\ op' = call
  /\ prev' = Items
  /\ steps' = steps + 1
  /\ UNCHANGED <<file, log>>

\* a menu action gave up before calling the store
Cancelled ==
  /\ op' = Call("cancel", <<>>, 0, ZeroPrice, FALSE, "")
  /\ prev' = Items
  /\ steps' = steps + 1
  /\ UNCHANGED <<g_items, g_count, file, pc, log>>

Running == pc = "menu" /\ steps < MaxSteps

\* a run of the program starts: main calls load_inventory.  The static store
\* of the new process is zero; prev keeps the store the previous run left.
main_start ==
  /\ pc \in {"boot", "exited"}
  /\ prev' = Items
  /\ LET ctx == IF op.kind = "save" /\ op.ret THEN "after_save" ELSE ""
     IN  \/ /\ file = NoFile
            /\ g_items' = ZeroItems
            /\ g_count' = 0
            /\ log' = <<>>
            /\ pc' = "menu"
            /\ op' = Call("load", <<>>, 0, ZeroPrice, TRUE, ctx)
         \/ /\ file # NoFile
            /\ LET st == load_inventory_result(ZeroItems, file)
               IN  /\ g_items' = st.items
                   /\ g_count' = st.count
                   /\ log' = st.log
            /\ pc' = "menu"
            /\ op' = Call("load", <<>>, 0, ZeroPrice, TRUE, ctx)
         \/ /\ file # NoFile
            /\ g_items' = ZeroItems
            /\ g_count' = 0
            /\ log' = <<>>
            /\ pc' = "exit_failure"
            /\ op' = Call("load", <<>>, 0, ZeroPrice, FALSE, ctx)
  /\ UNCHANGED <<file, steps>>

add_item ==
  /\ Running
  /\ \E name \in NameInputs, qty \in QtyInputs, price \in PriceInputs :
       \E r \in add_item_results(g_items, g_count, name, qty, price) :
         Returned(Call("add", name, qty, price, r.ret, ""), r)

remove_item ==
  /\ Running
  /\ \E name \in NameInputs :
       LET r == remove_item_result(g_items, g_count, name)
       IN  Returned(Call("remove", name, 0, ZeroPrice, r.ret, ""), r)

update_quantity ==
  /\ Running
  /\ \E name \in NameInputs, new_qty \in QtyInputs :
       LET r == update_quantity_result(g_items, g_count, name, new_qty)
       IN  Returned(Call("update", name, new_qty, ZeroPrice, r.ret, ""), r)

menu_add ==
  /\ Running
  /\ \E t1 \in MenuNameInputs, t2 \in MenuQtyInputs, t3 \in MenuPriceInputs :
       LET name  == read_line(t1)
           qty   == parse_int(read_line(t2))
           price == parse_double(read_line(t3))
       IN  IF name = <<>> THEN Cancelled
           ELSE IF ~qty.ok \/ qty.val <= 0 THEN Cancelled
           ELSE IF ~price.ok THEN Cancelled
           ELSE \E r \in add_item_results(g_items, g_count, name,
                                          qty.val, price.val) :
                  Returned(Call("add", name, qty.val, price.val, r.ret, ""), r)

menu_remove ==
  /\ Running
  /\ \E t1 \in MenuNameInputs :
       LET name == read_line(t1)
       IN  IF name = <<>> THEN Cancelled
           ELSE LET r == remove_item_result(g_items, g_count, name)
                IN  Returned(Call("remove", name, 0, ZeroPrice, r.ret, ""), r)

menu_update_qty ==
  /\ Running
  /\ \E t1 \in MenuNameInputs, t2 \in MenuQtyInputs :
       LET name == read_line(t1)
           qty  == parse_int(read_line(t2))
       IN  IF name = <<>> THEN Cancelled
           ELSE IF ~qty.ok THEN Cancelled
           ELSE LET r == update_quantity_result(g_items, g_count, name, qty.val)
                IN  Returned(Call("update", name, qty.val, ZeroPrice, r.ret, ""), r)

\* case '7': save_inventory(); running = false;
\* fopen(INVENTORY_FILE, "w") succeeds or fails
save_exit ==
  /\ Running
  /\ \E writable \in BOOLEAN :
       /\ file' = IF writable THEN save_inventory_lines(g_items, g_count)
                  ELSE file
       /\ op' = Call("save", <<>>, 0, ZeroPrice, writable, "")
  /\ pc' = "exited"
  /\ prev' = Items
  /\ steps' = steps + 1
  /\ UNCHANGED <<g_items, g_count, log>>

\* case '8', or end of input at the prompt
exit_nosave ==
  /\ Running
  /\ pc' = "exited"
  /\ op' = Call("exit", <<>>, 0, ZeroPrice, TRUE, "")
  /\ prev' = Items
  /\ steps' = steps + 1
  /\ UNCHANGED <<g_items, g_count, file, log>>

Next ==
  \/ main_start
  \/ add_item
  \/ remove_item
  \/ update_quantity
  \/ menu_add
  \/ menu_remove
  \/ menu_update_qty
  \/ save_exit
  \/ exit_nosave

Spec == Init /\ [][Next]_vars

(***************************************************************************)
(* Properties                                                              *)
(***************************************************************************)
\* letters folded to lower case, for the statements below
Folded(s) ==
  [i \in 1..Len(s) |->
     IF s[i] \in {"A", "B", "C"}
     THEN (CHOOSE l \in {"a", "b", "c"} :
             <<s[i], l>> \in {<<"A", "a">>, <<"B", "b">>, <<"C", "c">>})
     ELSE s[i]]

SameName(s, t) == Folded(s) = Folded(t)

\* the positions of the store st whose name matches name
Matches(st, name) == { i \in 1..Len(st) : SameName(st[i].name, name) }

\* the arguments Add accepts
ValidAddArgs(c) ==
  /\ Len(c.name) > 0 /\ Len(c.name) < MAX_NAME_LEN
  /\ c.qty > 0
  /\ ~(c.price.neg /\ (c.price.w > 0 \/ c.price.m > 0))

\* the sequence st without its element at position i
RemoveAt(st, i) == SubSeq(st, 1, i - 1) \o SubSeq(st, i + 1, Len(st))

\* q1 = q0 + q for q > 0, stated without leaving the range of int
SumIs(q1, q0, q) == IF q0 < 0 THEN q1 = q0 + q ELSE q1 >= q /\ q1 - q = q0

\* C1: no two items of the store have names equal under case-insensitive
\* comparison, in every state reached by load, add, remove and update.
C1_NameUnique ==
  \A i, j \in 1..g_count :
    i # j => ~SameName(g_items[i].name, g_items[j].name)

\* an add whose name matched an item spelled in another case was a restock
C1_Witness ==
  /\ op.kind = "add" /\ op.ret
  /\ g_count = Len(prev)
  /\ \E i \in Matches(prev, op.name) : prev[i].name # op.name

\* C2: every stored item has 0 <= quantity <= 1,000,000, in every state
\* reached by load, add (restock included), remove and update.
C2_QuantityInRange ==
  \A i \in 1..g_count :
    g_items[i].quantity >= 0 /\ g_items[i].quantity <= QTY_LIMIT

\* C3: a load that follows a successful save yields the saved store: the
\* same names and quantities in the same order, prices equal to two
\* decimal places, and no line skipped with a warning.
C3_RoundTrip ==
  (op.kind = "load" /\ op.ret /\ op.ctx = "after_save") =>
    /\ Len(Items) = Len(prev)
    /\ \A i \in 1..Len(prev) :
         /\ Items[i].name = prev[i].name
         /\ Items[i].quantity = prev[i].quantity
         /\ RoundCents(Items[i].price) = RoundCents(prev[i].price)
    /\ \A i \in 1..Len(log) : log[i] \in {"comment", "loaded"}

\* C4: the item count never exceeds MAX_ITEMS, and an add with valid
\* arguments and a new name on a full store fails and leaves the store as
\* it was.
C4_Capacity ==
  /\ g_count <= MAX_ITEMS
  /\ (/\ op.kind = "add"
      /\ ValidAddArgs(op)
      /\ Len(prev) = MAX_ITEMS
      /\ Matches(prev, op.name) = {})
     => (~op.ret /\ Items = prev)

C4_Witness ==
  /\ op.kind = "add"
  /\ ValidAddArgs(op)
  /\ Len(prev) = MAX_ITEMS
  /\ Matches(prev, op.name) = {}
  /\ ~op.ret

\* C5: an add with valid arguments whose name matches an item succeeds and
\* leaves that item with quantity q0 + q and the given price, and the rest
\* of the store (count, order, names, other items) as it was.
C5_Restock ==
  (op.kind = "add" /\ ValidAddArgs(op) /\ Matches(prev, op.name) # {}) =>
    /\ op.ret
    /\ Len(Items) = Len(prev)
    /\ \A i \in 1..Len(prev) :
         IF i \in Matches(prev, op.name)
         THEN /\ Items[i].name = prev[i].name
              /\ Items[i].price = op.price
              /\ SumIs(Items[i].quantity, prev[i].quantity, op.qty)
         ELSE Items[i] = prev[i]

\* C6: a remove whose name matches the item at position i succeeds and
\* yields the previous sequence with exactly that item deleted.
C6_RemoveKeepsOrder ==
  (op.kind = "remove" /\ Matches(prev, op.name) # {}) =>
    /\ op.ret
    /\ \A i \in Matches(prev, op.name) : Items = RemoveAt(prev, i)

\* a removal with items before and after the removed one
C6_Witness ==
  /\ op.kind = "remove" /\ op.ret
  /\ \E i \in Matches(prev, op.name) : 1 < i /\ i < Len(prev)

\* C7: an update with n >= 0 on a matching name succeeds and sets that
\* item's quantity to n; the item stays, also for n = 0, and its name and
\* price, the count, the order and the other items are as they were.
C7_SetQuantity ==
  (op.kind = "update" /\ op.qty >= 0 /\ Matches(prev, op.name) # {}) =>
    /\ op.ret
    /\ \A i \in Matches(prev, op.name) :
         Items = [prev EXCEPT ![i].quantity = op.qty]

\* an update to zero of an item that was in stock
C7_Witness ==
  /\ op.kind = "update" /\ op.ret /\ op.qty = 0
  /\ Len(prev) > 1
  /\ \E i \in Matches(prev, op.name) :
       prev[i].quantity > 0 /\ Items[i].name = prev[i].name

RECURSIVE SplitCommas(_)
\* the fields of a line between its commas, empty fields included
SplitCommas(s) ==
  IF \A k \in 1..Len(s) : s[k] # "," THEN <<s>>
  ELSE LET k == CHOOSE k \in 1..Len(s) :
                  s[k] = "," /\ \A j \in 1..(k - 1) : s[j] # ","
       IN  <<SubSeq(s, 1, k - 1)>> \o SplitCommas(SubSeq(s, k + 1, Len(s)))

\* a line of exactly three non-empty fields
ThreeFields(s) ==
  LET f == SplitCommas(s)
  IN  Len(f) = 3 /\ \A k \in 1..3 : f[k] # <<>>

\* a line load_inventory neither ignores as blank nor as a comment
IsRecordLine(s) == trim(s) # <<>> /\ Head(trim(s)) # "#"

\* C8: a load skips with a warning every non-blank, non-comment line that
\* is not exactly three non-empty comma-separated fields, adds no item for
\* it, and goes on to the lines after it.
C8_LoadShape ==
  (op.kind = "load" /\ op.ret /\ file # NoFile) =>
    \A i \in 1..Len(log) :
      (IsRecordLine(file[i]) /\ ~ThreeFields(trim(file[i]))) =>
        /\ log[i] \in {"malformed", "name", "quantity", "price", "duplicate",
                       "full"}
        /\ (log[i] # "full" /\ i < Len(file)) => Len(log) > i

\* C9: a save that fails leaves the store as it was and the menu loop
\* running, so that the save can be tried again.
C9_SaveFailureKeepsRunning ==
  (op.kind = "save" /\ ~op.ret) => (Items = prev /\ pc = "menu")

\* C10: an add with an invalid name, quantity <= 0 or price < 0, a remove
\* of an absent name, and an update with a negative quantity or an absent
\* name each fail and leave the store as it was.
C10_FailedCallsKeepStore ==
  /\ (op.kind = "add" /\ ~ValidAddArgs(op)) => (~op.ret /\ Items = prev)
  /\ (op.kind = "remove" /\ Matches(prev, op.name) = {})
       => (~op.ret /\ Items = prev)
  /\ (op.kind = "update" /\ (op.qty < 0 \/ Matches(prev, op.name) = {}))
       => (~op.ret /\ Items = prev)

\* an add of quantity 0 under the name of an item in stock
C10_Witness ==
  /\ op.kind = "add" /\ op.qty = 0 /\ ~op.ret
  /\ Matches(prev, op.name) # {}
  /\ Items = prev

====
